---- MODULE Spec2Model ----
(***************************************************************************)
(* Config (src/config/config.py): the parsed YAML document is flattened    *)
(* into attributes of the Config object by __set_property, and the value   *)
(* of the attribute `plugins` is then walked by __load_plugins, which      *)
(* replaces plugin names by loaded plugin modules.                         *)
(*                                                                         *)
(* Both recursions are modelled with an explicit call stack, one step per  *)
(* loop iteration, so that the local variables of every activation (the    *)
(* `depth` of __set_property, the `plugin_objs` of __load_plugins) and the *)
(* partly mutated plugin tree are part of the state.                       *)
(***************************************************************************)
EXTENDS Integers, Sequences, FiniteSets, TLC

VARIABLES
    doc,           \* yaml.safe_load(f.read()): the parsed document
    fields_depth,  \* self.fields_depth: qualified name -> depth
    attrs,         \* attributes setattr has put on the Config object
    stack,         \* activations of __set_property, innermost last
    pstack,        \* activations of __load_plugins, innermost last
    pc,            \* position in Config.__init__
    error,         \* the exception that ended __init__, if any
    calls          \* calls made on plugin_sources, in order

vars == <<doc, fields_depth, attrs, stack, pstack, pc, error, calls>>

(***************************************************************************)
(* Values of the document.  Every node has the same three fields: its      *)
(* Python type t, its text s (scalars) and its children c (containers).    *)
(* A child is an entry: key and value for a dict, key "" for a list.       *)
(***************************************************************************)
Entry(k, v) == [k |-> k, v |-> v]

None == [t |-> "NoneType", s |-> "", c |-> <<>>]

Num(x) == [t |-> "int", s |-> x, c |-> <<>>]

Str(x) == [t |-> "str", s |-> x, c |-> <<>>]

List(es) == [t |-> "list", s |-> "", c |-> [i \in 1..Len(es) |-> Entry("", es[i])]]

Dict(items) == [t |-> "dict", s |-> "", c |-> items]

\* plugin_sources.load_plugin(name): the loaded plugin module
load_plugin(name) == [t |-> "module", s |-> name, c |-> <<>>]

\* isinstance(value, dict)
IsDict(n) == n.t = "dict"

\* Python truth value of a node (`properties or {}`, `if plugins:`)
Truthy(n) ==
    CASE n.t = "NoneType" -> FALSE
      [] n.t = "int" -> n.s # "0"
      [] n.t = "str" -> n.s # ""
      [] n.t \in {"list", "dict"} -> n.c # <<>>
      [] OTHER -> TRUE

\* sys.maxsize; the model's integers are 32 bits wide, and no document of
\* the model is nested more than a handful of levels
maxsize == 2147483647

\* plugin_sources.list_plugins(): the plugins found in the plugin directory
all_plugins == {"p1", "p2"}

NoError == [type |-> "", arg |-> ""]

(***************************************************************************)
(* Bounds of the documents.                                                *)
(***************************************************************************)
MaxDepth == 2      \* dict levels below a top-level key
MaxSeqLen == 2     \* length of a list of plugin names
MaxCap == 2        \* largest depth in fields_depth

NoDepths == [x \in {} |-> 0]

\* self.fields_depth as set by __init__
ReferenceDepths == "plugins" :> 1

CapKeys == {"a", "a_b"}

DepthMaps ==
    {NoDepths, ReferenceDepths} \cup {k :> n : k \in CapKeys, n \in 1..MaxCap}

FLeaves == {Num("1"), List(<<Num("2")>>)}

NestKeys == {"b", "c"}

RECURSIVE FVals(_)
FVals(d) ==
    IF d = 0 THEN FLeaves
    ELSE LET sub == FVals(d - 1)
         IN  sub \cup {Dict(<<>>)}
                 \cup {Dict(<<Entry(k, v)>>) : k \in NestKeys, v \in sub}

TopKeys == {"a", "a_b"}

\* the values of the top-level keys: a Mapping may also hold two keys
TopVals ==
    FVals(MaxDepth)
    \cup {Dict(<<Entry("b", v), Entry("c", Num("1"))>>) : v \in FVals(MaxDepth - 1)}

FlattenDocs ==
    LET V == TopVals
    IN  {Dict(<<>>)}
        \cup {Dict(<<Entry(k, v)>>) : k \in TopKeys, v \in V}
        \cup {Dict(<<Entry(k1, v1), Entry(k2, v2)>>) :
                 <<k1, v1, k2, v2>> \in
                     {q \in TopKeys \X V \X TopKeys \X V : q[1] # q[3]}}

\* roots that are not a dict: the empty document, scalars, lists
OtherRoots ==
    {None, Num("0"), Num("1"), Str(""), Str("p1"), List(<<>>), List(<<Str("p1")>>)}

Names == {"p1", "p2", "px"}

RECURSIVE NameSeqs(_)
NameSeqs(n) ==
    IF n = 0 THEN {<<>>}
    ELSE LET shorter == NameSeqs(n - 1)
         IN  shorter \cup {Append(q, Str(x)) : q \in shorter, x \in Names}

PLeaves == {Str(x) : x \in Names} \cup {List(q) : q \in NameSeqs(MaxSeqLen)} \cup {None}

RECURSIVE PVals(_)
PVals(d) ==
    IF d = 0 THEN PLeaves
    ELSE LET sub == PVals(d - 1)
         IN  sub \cup {Dict(<<>>)} \cup {Dict(<<Entry("s", v)>>) : v \in sub}

PluginSpecs ==
    {Dict(<<>>)}
    \cup {Dict(<<Entry("t", v)>>) : v \in PVals(MaxDepth - 1)}
    \cup {Dict(<<Entry("t", v), Entry("u", w)>>) :
             v \in PVals(MaxDepth - 1), w \in PLeaves}

\* what the document may say under `plugins`
PluginValues == PluginSpecs \cup PLeaves \cup {Num("1"), Str("")}

Other == Entry("a", Dict(<<Entry("b", Num("1"))>>))

PluginDocs ==
    {Dict(<<Other>>)}
    \cup {Dict(<<Entry("plugins", p)>>) : p \in PluginValues}
    \cup {Dict(<<Other, Entry("plugins", p)>>) : p \in PluginValues}
    \cup {Dict(<<Entry("plugins", p), Other>>) : p \in PluginValues}

(***************************************************************************)
(* Config.__init__                                                         *)
(***************************************************************************)
Init ==
    /\ \/ doc \in FlattenDocs \cup OtherRoots /\ fields_depth \in DepthMaps
       \/ doc \in PluginDocs /\ fields_depth \in {ReferenceDepths, NoDepths}
    /\ attrs = [x \in {} |-> None]
    /\ stack = <<>>
    /\ pstack = <<>>
    /\ pc = "load_config"
    /\ error = NoError
    /\ calls = <<>>

\* self.plugins: None from __init__ unless the document has set it
plugins == IF "plugins" \in DOMAIN attrs THEN attrs["plugins"] ELSE None

Frame(properties, prefix, depth) ==
    [properties |-> properties, i |-> 1, prefix |-> prefix, depth |-> depth]

\* LoadConfig without `properties or {}`
LoadConfigStrict ==
    /\ pc = "load_config"
    /\ IF IsDict(doc)
       THEN /\ stack' = <<Frame(doc.c, "", <<>>)>>
            /\ pc' = "set_property"
            /\ error' = error
       ELSE /\ stack' = stack
            /\ pc' = "failed"
            /\ error' = [type |-> "AttributeError", arg |-> "items"]
    /\ UNCHANGED <<doc, fields_depth, attrs, pstack, calls>>

\* __load_config calls __set_property(yaml.safe_load(...)): `properties or {}`
\* and then properties.items(), which only a dict has
LoadConfig ==
    /\ pc = "load_config"
    /\ LET properties == IF Truthy(doc) THEN doc ELSE Dict(<<>>)
       IN  IF IsDict(properties)
           THEN /\ stack' = <<Frame(properties.c, "", <<>>)>>
                /\ pc' = "set_property"
                /\ error' = error
           ELSE /\ stack' = stack
                /\ pc' = "failed"
                /\ error' = [type |-> "AttributeError", arg |-> "items"]
    /\ UNCHANGED <<doc, fields_depth, attrs, pstack, calls>>

top == stack[Len(stack)]

\* full_name without the separator
full_name_unjoined(prefix, name) == prefix \o name

\* full_name = prefix + name if prefix == '' else prefix + '_' + name
full_name(prefix, name) == IF prefix = "" THEN prefix \o name ELSE prefix \o "_" \o name

\* resolved_depth with the lookup made at every level, not only for None
resolved_depth_fresh(f, name) ==
    IF name \in DOMAIN fields_depth THEN fields_depth[name]
    ELSE IF f.depth = <<>> THEN maxsize ELSE f.depth[1]

\* the value of the local `depth` once the `if depth is None` statement of
\* the iteration on `name` has run; <<>> stands for None
resolved_depth(f, name) ==
    IF f.depth = <<>>
    THEN IF name \in DOMAIN fields_depth THEN fields_depth[name] ELSE maxsize
    ELSE f.depth[1]

\* one iteration of the loop, on a dict value with depth > 1
SetPropertyRecurse ==
    /\ pc = "set_property"
    /\ top.i <= Len(top.properties)
    /\ LET e == top.properties[top.i]
           name == full_name(top.prefix, e.k)
           depth == resolved_depth(top, name)
       IN  /\ IsDict(e.v) /\ depth > 1
           /\ stack' = Append(
                  [stack EXCEPT ![Len(stack)] =
                      [@ EXCEPT !.i = @ + 1, !.depth = <<depth>>]],
                  Frame(e.v.c, name, <<depth - 1>>))
    /\ UNCHANGED <<doc, fields_depth, attrs, pstack, pc, error, calls>>

\* one iteration of the loop, on any other value: setattr
SetPropertyBind ==
    /\ pc = "set_property"
    /\ top.i <= Len(top.properties)
    /\ LET e == top.properties[top.i]
           name == full_name(top.prefix, e.k)
           depth == resolved_depth(top, name)
       IN  /\ ~(IsDict(e.v) /\ depth > 1)
           /\ attrs' = (name :> e.v) @@ attrs
           /\ stack' = [stack EXCEPT ![Len(stack)] =
                           [@ EXCEPT !.i = @ + 1, !.depth = <<depth>>]]
    /\ UNCHANGED <<doc, fields_depth, pstack, pc, error, calls>>

\* the loop is over: return to the caller; the outermost activation returns
\* to __init__, whose __load_args and __logger_config touch no modelled state
SetPropertyReturn ==
    /\ pc = "set_property"
    /\ top.i > Len(top.properties)
    /\ stack' = SubSeq(stack, 1, Len(stack) - 1)
    /\ pc' = IF Len(stack) = 1 THEN "pre_load_plugins" ELSE pc
    /\ UNCHANGED <<doc, fields_depth, attrs, pstack, error, calls>>

(***************************************************************************)
(* Config.__pre_load_plugins and Config.__load_plugins                     *)
(***************************************************************************)
Call(op, name) == [op |-> op, name |-> name]

\* an activation of __load_plugins: the dict it walks is found at `path`
\* (child positions from self.plugins down), i is the loop position, j the
\* position in the list `plus`, plugin_objs the local list being built
PFrame(path) == [path |-> path, i |-> 1, j |-> 1, plugin_objs |-> <<>>]

RECURSIVE NodeAt(_, _)
NodeAt(node, path) ==
    IF path = <<>> THEN node ELSE NodeAt(node.c[Head(path)].v, Tail(path))

\* plugins[parse_type] = val, in the dict found at `path`
RECURSIVE SetAt(_, _, _, _)
SetAt(node, path, i, val) ==
    IF path = <<>>
    THEN [node EXCEPT !.c[i].v = val]
    ELSE [node EXCEPT !.c[Head(path)].v = SetAt(@, Tail(path), i, val)]

\* PreLoadPlugins with list_plugins() called inside `if plugins:`
PreLoadPluginsLazy ==
    /\ pc = "pre_load_plugins"
    /\ calls' = IF Truthy(plugins) THEN Append(calls, Call("list_plugins", "")) ELSE calls
    /\ IF Truthy(plugins)
       THEN IF IsDict(plugins)
            THEN /\ pstack' = <<PFrame(<<>>)>>
                 /\ pc' = "load_plugins"
                 /\ error' = error
            ELSE /\ pstack' = pstack
                 /\ pc' = "failed"
                 /\ error' = [type |-> "AttributeError", arg |-> "items"]
       ELSE /\ pstack' = pstack
            /\ pc' = "done"
            /\ error' = error
    /\ UNCHANGED <<doc, fields_depth, attrs, stack>>

\* __pre_load_plugins calls __load_plugins(self.plugins, plugin_sources):
\* list_plugins(), then `if plugins:` and plugins.items()
PreLoadPlugins ==
    /\ pc = "pre_load_plugins"
    /\ calls' = Append(calls, Call("list_plugins", ""))
    /\ IF Truthy(plugins)
       THEN IF IsDict(plugins)
            THEN /\ pstack' = <<PFrame(<<>>)>>
                 /\ pc' = "load_plugins"
                 /\ error' = error
            ELSE /\ pstack' = pstack
                 /\ pc' = "failed"
                 /\ error' = [type |-> "AttributeError", arg |-> "items"]
       ELSE /\ pstack' = pstack
            /\ pc' = "done"
            /\ error' = error
    /\ UNCHANGED <<doc, fields_depth, attrs, stack>>

ptop == pstack[Len(pstack)]

\* the dict the innermost activation walks, and the value of its iteration
pdict == NodeAt(plugins, ptop.path)

plus == pdict.c[ptop.i].v

\* NotFound without the membership test
NotFoundNever(plugin) == plugin.t # "str"

\* `plugin not in all_plugins`
NotFound(plugin) == ~(plugin.t = "str" /\ plugin.s \in all_plugins)

\* raise ValueError('plugin: {} ...'.format(plugin))
Raise(plugin) ==
    /\ pc' = "failed"
    /\ error' = [type |-> "ValueError", arg |-> plugin.s]

StoreAndStep(val) ==
    /\ attrs' = [attrs EXCEPT !["plugins"] = SetAt(@, ptop.path, ptop.i, val)]
    /\ pstack' = [pstack EXCEPT ![Len(pstack)] =
                     [@ EXCEPT !.i = @ + 1, !.j = 1, !.plugin_objs = <<>>]]

\* LoadPluginsListElem with the element replaced in the list itself
LoadPluginsListElemInPlace ==
    /\ pc = "load_plugins"
    /\ ptop.i <= Len(pdict.c)
    /\ plus.t = "list"
    /\ ptop.j <= Len(plus.c)
    /\ LET plugin == plus.c[ptop.j].v
       IN  IF NotFound(plugin)
           THEN /\ Raise(plugin)
                /\ UNCHANGED <<attrs, pstack, calls>>
           ELSE /\ calls' = Append(calls, Call("load_plugin", plugin.s))
                /\ attrs' = [attrs EXCEPT !["plugins"] =
                       SetAt(@, Append(ptop.path, ptop.i), ptop.j, load_plugin(plugin.s))]
                /\ pstack' = [pstack EXCEPT ![Len(pstack)] =
                       [@ EXCEPT !.j = @ + 1,
                                 !.plugin_objs = Append(@, load_plugin(plugin.s))]]
                /\ UNCHANGED <<pc, error>>
    /\ UNCHANGED <<doc, fields_depth, stack>>

\* isinstance(plus, list): one iteration of `for plugin in plus`
LoadPluginsListElem ==
    /\ pc = "load_plugins"
    /\ ptop.i <= Len(pdict.c)
    /\ plus.t = "list"
    /\ ptop.j <= Len(plus.c)
    /\ LET plugin == plus.c[ptop.j].v
       IN  IF NotFound(plugin)
           THEN /\ Raise(plugin)
                /\ UNCHANGED <<pstack, calls>>
           ELSE /\ calls' = Append(calls, Call("load_plugin", plugin.s))
                /\ pstack' = [pstack EXCEPT ![Len(pstack)] =
                       [@ EXCEPT !.j = @ + 1,
                                 !.plugin_objs = Append(@, load_plugin(plugin.s))]]
                /\ UNCHANGED <<pc, error>>
    /\ UNCHANGED <<doc, fields_depth, attrs, stack>>

\* isinstance(plus, list): plugins[parse_type] = plugin_objs
LoadPluginsListStore ==
    /\ pc = "load_plugins"
    /\ ptop.i <= Len(pdict.c)
    /\ plus.t = "list"
    /\ ptop.j > Len(plus.c)
    /\ StoreAndStep(List(ptop.plugin_objs))
    /\ UNCHANGED <<doc, fields_depth, stack, pc, error, calls>>

\* LoadPluginsStr with the loaded plugin wrapped in a list
LoadPluginsStrWrapped ==
    /\ pc = "load_plugins"
    /\ ptop.i <= Len(pdict.c)
    /\ plus.t = "str"
    /\ IF NotFound(plus)
       THEN /\ Raise(plus)
            /\ UNCHANGED <<attrs, pstack, calls>>
       ELSE /\ calls' = Append(calls, Call("load_plugin", plus.s))
            /\ StoreAndStep(List(<<load_plugin(plus.s)>>))
            /\ UNCHANGED <<pc, error>>
    /\ UNCHANGED <<doc, fields_depth, stack>>

\* isinstance(plus, str)
LoadPluginsStr ==
    /\ pc = "load_plugins"
    /\ ptop.i <= Len(pdict.c)
    /\ plus.t = "str"
    /\ IF NotFound(plus)
       THEN /\ Raise(plus)
            /\ UNCHANGED <<attrs, pstack, calls>>
       ELSE /\ calls' = Append(calls, Call("load_plugin", plus.s))
            /\ StoreAndStep(load_plugin(plus.s))
            /\ UNCHANGED <<pc, error>>
    /\ UNCHANGED <<doc, fields_depth, stack>>

\* isinstance(plus, dict): Config.__load_plugins(plus, plugin_sources), which
\* begins with its own list_plugins()
LoadPluginsDict ==
    /\ pc = "load_plugins"
    /\ ptop.i <= Len(pdict.c)
    /\ plus.t = "dict"
    /\ calls' = Append(calls, Call("list_plugins", ""))
    /\ pstack' = Append(
           [pstack EXCEPT ![Len(pstack)] = [@ EXCEPT !.i = @ + 1]],
           PFrame(Append(ptop.path, ptop.i)))
    /\ UNCHANGED <<doc, fields_depth, attrs, stack, pc, error>>

\* none of the three isinstance tests holds: the value is left as it is
LoadPluginsOther ==
    /\ pc = "load_plugins"
    /\ ptop.i <= Len(pdict.c)
    /\ plus.t \notin {"list", "str", "dict"}
    /\ pstack' = [pstack EXCEPT ![Len(pstack)] = [@ EXCEPT !.i = @ + 1]]
    /\ UNCHANGED <<doc, fields_depth, attrs, stack, pc, error, calls>>

\* the loop is over: return; the outermost activation ends __init__
LoadPluginsReturn ==
    /\ pc = "load_plugins"
    /\ ptop.i > Len(pdict.c)
    /\ pstack' = SubSeq(pstack, 1, Len(pstack) - 1)
    /\ pc' = IF Len(pstack) = 1 THEN "done" ELSE pc
    /\ UNCHANGED <<doc, fields_depth, attrs, stack, error, calls>>

Next ==
    \/ LoadConfig
    \/ SetPropertyRecurse
    \/ SetPropertyBind
    \/ SetPropertyReturn
    \/ PreLoadPlugins
    \/ LoadPluginsListElem
    \/ LoadPluginsListStore
    \/ LoadPluginsStr
    \/ LoadPluginsDict
    \/ LoadPluginsOther
    \/ LoadPluginsReturn

Spec == Init /\ [][Next]_vars

(***************************************************************************)
(* What the document says, computed from the document alone.               *)
(***************************************************************************)
\* the qualified path of a key sequence: the keys joined by `_`
RECURSIVE QualifiedPath(_)
QualifiedPath(keys) ==
    IF Len(keys) = 1 THEN keys[1]
    ELSE QualifiedPath(SubSeq(keys, 1, Len(keys) - 1)) \o "_" \o keys[Len(keys)]

\* the non-Mapping values below `items`, in document order, each with the
\* qualified path of its full key sequence
RECURSIVE LeafSeq(_, _)
LeafSeq(items, keys) ==
    IF items = <<>> THEN <<>>
    ELSE LET e == Head(items)
             ks == Append(keys, e.k)
         IN  (IF e.v.t = "dict" THEN LeafSeq(e.v.c, ks)
              ELSE <<[path |-> QualifiedPath(ks), v |-> e.v]>>)
             \o LeafSeq(Tail(items), keys)

Leaves == LeafSeq(doc.c, <<>>)

Flattened == pc = "pre_load_plugins"

\* the value of the document's top-level key `plugins`
DocPlugins ==
    LET at == {i \in DOMAIN doc.c : doc.c[i].k = "plugins"}
    IN  IF doc.t = "dict" /\ at # {} THEN doc.c[CHOOSE i \in at : TRUE].v ELSE None

\* the resolver has been handed the Mapping the document declares
WalksDeclared == calls # <<>> /\ "plugins" \in DOMAIN attrs /\ DocPlugins.t = "dict"

\* a plugin spec with every name replaced by its handle, shape kept
RECURSIVE Resolved(_)
Resolved(n) ==
    CASE n.t = "str" -> load_plugin(n.s)
      [] n.t = "list" ->
           [n EXCEPT !.c = [i \in 1..Len(n.c) |-> [k |-> "", v |-> load_plugin(n.c[i].v.s)]]]
      [] n.t = "dict" ->
           [n EXCEPT !.c = [i \in 1..Len(n.c) |->
                               [k |-> n.c[i].k, v |-> Resolved(n.c[i].v)]]]
      [] OTHER -> n

\* the plugin names of a spec in traversal order
RECURSIVE NamesOf(_), NamesIn(_)
NamesOf(n) ==
    CASE n.t = "str" -> <<n.s>>
      [] n.t = "list" -> [i \in 1..Len(n.c) |-> n.c[i].v.s]
      [] n.t = "dict" -> NamesIn(n.c)
      [] OTHER -> <<>>

NamesIn(items) ==
    IF items = <<>> THEN <<>> ELSE NamesOf(Head(items).v) \o NamesIn(Tail(items))

Unknown(names) == {i \in 1..Len(names) : names[i] \notin all_plugins}

\* position of the first unknown name
FirstUnknown(names) == CHOOSE i \in Unknown(names) : \A j \in Unknown(names) : i <= j

LoadedNames == {calls[i].name : i \in {j \in 1..Len(calls) : calls[j].op = "load_plugin"}}

(***************************************************************************)
(* Flattening                                                              *)
(***************************************************************************)
\* C1: the descent at every top-level key k starts with k's own depth:
\* fields_depth[k] when k is in the depth map, unlimited otherwise, whatever
\* top-level keys come before k.
C1_DepthPerTopLevelKey ==
    (pc = "set_property" /\ Len(stack) = 1 /\ top.i <= Len(top.properties))
        => LET k == top.properties[top.i].k
               own == IF k \in DOMAIN fields_depth THEN fields_depth[k] ELSE maxsize
           IN  top.depth # <<>> => top.depth = <<own>>

\* the iteration of the innermost activation on key e.k with value e.v, where
\* d is the value of its local `depth` when the isinstance test runs
DescentStep ==
    (pc = "set_property" /\ top.i <= Len(top.properties))
        => LET n == Len(stack)
               e == top.properties[top.i]
               d == stack'[n].depth[1]
               path == IF n = 1 THEN e.k ELSE top.prefix \o "_" \o e.k
           IN  /\ n > 1 => top.depth = <<d>>
               /\ IF e.v.t = "dict" /\ d > 1
                  THEN /\ attrs' = attrs
                       /\ Len(stack') = n + 1
                       /\ stack'[n + 1].properties = e.v.c
                       /\ stack'[n + 1].prefix = path
                       /\ stack'[n + 1].depth = <<d - 1>>
                  ELSE /\ Len(stack') = n
                       /\ attrs' = [p \in DOMAIN attrs \cup {path} |->
                                       IF p = path THEN e.v ELSE attrs[p]]

\* the activation m levels below a top-level key holds that key's depth less m
DepthInherited ==
    \A m \in 2..Len(stack) :
        /\ stack[m].depth = <<stack[1].depth[1] - (m - 1)>>
        /\ stack[m].depth[1] >= 1

ABC == Dict(<<Entry("a", Dict(<<Entry("b", Dict(<<Entry("c", Num("1"))>>))>>))>>)

CapExamples ==
    (Flattened /\ doc = ABC)
        => /\ fields_depth = ("a" :> 1) => attrs = ("a" :> ABC.c[1].v)
           /\ fields_depth = ("a" :> 2) => attrs = ("a_b" :> ABC.c[1].v.c[1].v)

\* C2: at every descent step on key k, value v, remaining depth d: a Mapping
\* with d > 1 is recursed into with d - 1 under the extended path, which is
\* not bound; anything else is bound whole at the extended path.  Nested
\* levels use the decremented depth only, so nothing is bound more than cap
\* levels deep and a Mapping reached at the cap is stored whole.
C2_DescentRule == [][DescentStep]_vars /\ [](DepthInherited /\ CapExamples)

C2_Witness ==
    /\ Flattened
    /\ fields_depth = ("a" :> 2)
    /\ doc.c # <<>>
    /\ doc.c[1].k = "a"
    /\ "a_b" \in DOMAIN attrs
    /\ attrs["a_b"].t = "dict"
    /\ attrs["a_b"].c # <<>>
    /\ "a_b_c" \notin DOMAIN attrs

\* C3 as stated: with an empty depth map the keys written are exactly the
\* qualified paths of the non-Mapping values, each bound to the value found
\* at that path, for any tree.
C3_EveryLeafBound ==
    (Flattened /\ fields_depth = NoDepths)
        => /\ DOMAIN attrs = {Leaves[i].path : i \in 1..Len(Leaves)}
           /\ \A i \in 1..Len(Leaves) : attrs[Leaves[i].path] = Leaves[i].v

\* C3 amended: with an empty depth map the keys written are exactly the
\* qualified paths of the non-Mapping values, and each key is bound to the
\* value of the last non-Mapping value, in document order, with that path.
C3_LastLeafBound ==
    (Flattened /\ fields_depth = NoDepths)
        => /\ DOMAIN attrs = {Leaves[i].path : i \in 1..Len(Leaves)}
           /\ \A i \in 1..Len(Leaves) :
                  (\A j \in (i + 1)..Len(Leaves) : Leaves[j].path # Leaves[i].path)
                      => attrs[Leaves[i].path] = Leaves[i].v

C3_Witness ==
    /\ Flattened
    /\ fields_depth = NoDepths
    /\ Len(Leaves) = 2
    /\ Leaves[1].path = "a_b"
    /\ Leaves[2].path = "a_b"
    /\ Leaves[1].v # Leaves[2].v
    /\ attrs = ("a_b" :> Leaves[2].v)

OtherRootFalse == {None, Num("0"), Str(""), List(<<>>)}

\* C7 as stated: flatten of a root that is not a Mapping fails and binds
\* nothing; it never succeeds with an empty namespace.
C7_OtherRootFails ==
    (doc.t # "dict" /\ pc # "load_config")
        => pc = "failed" /\ error # NoError /\ DOMAIN attrs = {}

\* C7 amended: flatten of a root that is not a Mapping binds nothing; it
\* fails (AttributeError) when the root is a non-empty list or a scalar other
\* than None, 0 and '', and succeeds with an empty namespace otherwise.
C7_OtherRootFailsOrEmpty ==
    (doc.t # "dict" /\ pc # "load_config")
        => /\ DOMAIN attrs = {}
           /\ IF doc \in OtherRootFalse
              THEN error = NoError /\ pc \in {"set_property", "pre_load_plugins", "done"}
              ELSE pc = "failed" /\ error.type = "AttributeError" /\ calls = <<>>

C7_Witness == doc = None /\ Flattened /\ DOMAIN attrs = {} /\ error = NoError

(***************************************************************************)
(* Plugin resolution                                                       *)
(***************************************************************************)
\* C4: when resolve finishes on a plugin spec Mapping, the result has the
\* same keys at every level and the same sequences in length and order, and
\* every name, scalar or sequence element, is replaced by its handle in
\* place, a scalar staying a scalar.
C4_ShapePreserved ==
    (pc = "done" /\ WalksDeclared) => attrs["plugins"] = Resolved(DocPlugins)

C4_Witness ==
    /\ pc = "done"
    /\ WalksDeclared
    /\ attrs["plugins"] =
           Dict(<<Entry("t", Dict(<<Entry("s", List(<<load_plugin("p1"), load_plugin("p2")>>))>>)),
                  Entry("u", load_plugin("p1"))>>)

\* C5: a plugin spec Mapping that holds, at any depth, as a scalar or as a
\* sequence element, a name the registry does not know is never resolved to
\* the end: the pass fails with the error that names the first unknown name
\* in traversal order, and load is never called with an unknown name.
C5_FailFast ==
    /\ LoadedNames \subseteq all_plugins
    /\ (WalksDeclared /\ Unknown(NamesOf(DocPlugins)) # {})
           => /\ pc \in {"load_plugins", "failed"}
              /\ pc = "failed"
                     => LET names == NamesOf(DocPlugins)
                        IN  error = [type |-> "ValueError",
                                     arg |-> names[FirstUnknown(names)]]

C5_Witness ==
    /\ pc = "failed"
    /\ WalksDeclared
    /\ error = [type |-> "ValueError", arg |-> "px"]
    /\ Len(pstack) = 2
    /\ ptop.j = 2
    /\ LoadedNames = {"p1"}

NoSpec == {None, Dict(<<>>), List(<<>>), Str(""), Num("0")}

SpecUntouched == "plugins" \in DOMAIN attrs => attrs["plugins"] = DocPlugins

\* C6 as stated: resolving an absent, None or empty plugin spec leaves it
\* unchanged and invokes no registry operation at all.
C6_NoRegistryCall ==
    (pc = "done" /\ plugins \in NoSpec) => SpecUntouched /\ calls = <<>>

\* C6 amended: resolving an absent, None or empty plugin spec leaves it
\* unchanged and never invokes load; the known names are listed once.
C6_NoLoadCall ==
    (pc = "done" /\ plugins \in NoSpec)
        => SpecUntouched /\ calls = <<[op |-> "list_plugins", name |-> ""]>>

C6_Witness ==
    /\ pc = "done"
    /\ "plugins" \in DOMAIN attrs
    /\ attrs["plugins"] = Dict(<<>>)
    /\ Len(calls) = 1

\* C8: a plugin spec whose root is a single name or a non-empty sequence of
\* names is processed as a single leaf: every name is replaced by its
\* handle, or the pass fails with the error for the first unknown name.
C8_RootLeaf ==
    (pc \in {"done", "failed"} /\ calls # <<>> /\ "plugins" \in DOMAIN attrs
         /\ DocPlugins.t \in {"str", "list"} /\ DocPlugins \notin NoSpec)
        => LET names == NamesOf(DocPlugins)
           IN  IF Unknown(names) = {}
               THEN pc = "done" /\ attrs["plugins"] = Resolved(DocPlugins)
               ELSE error = [type |-> "ValueError", arg |-> names[FirstUnknown(names)]]

\* C9: with the depth map {plugins: 1} and a Mapping under the top-level
\* key `plugins`, wherever that key stands, `plugins` is bound to the whole
\* sub-Mapping, no plugins_<key> is bound, and the resolver runs over that
\* sub-Mapping.
C9_PluginsHandedWhole ==
    (fields_depth = ("plugins" :> 1) /\ DocPlugins.t = "dict"
         /\ pc \in {"pre_load_plugins", "load_plugins", "done", "failed"})
        => /\ "plugins" \in DOMAIN attrs
           /\ \A i \in 1..Len(DocPlugins.c) :
                  ("plugins_" \o DocPlugins.c[i].k) \notin DOMAIN attrs
           /\ pc = "pre_load_plugins" => attrs["plugins"] = DocPlugins
           /\ pc = "done" => attrs["plugins"] = Resolved(DocPlugins)

\* a spec with its first b names resolved; with `whole`, a sequence is
\* resolved only when all its names are among them
RECURSIVE Partly(_, _, _), PartlyIn(_, _, _)
Partly(n, b, whole) ==
    CASE n.t = "str" ->
           IF b >= 1 THEN [n |-> load_plugin(n.s), b |-> b - 1] ELSE [n |-> n, b |-> 0]
      [] n.t = "list" ->
           LET len == Len(n.c)
               m == IF b >= len THEN len ELSE IF whole THEN 0 ELSE b
           IN  [n |-> [n EXCEPT !.c = [i \in 1..len |->
                          IF i <= m THEN [k |-> "", v |-> load_plugin(n.c[i].v.s)] ELSE n.c[i]]],
                b |-> IF b >= len THEN b - len ELSE 0]
      [] n.t = "dict" ->
           LET r == PartlyIn(n.c, b, whole) IN [n |-> [n EXCEPT !.c = r.c], b |-> r.b]
      [] OTHER -> [n |-> n, b |-> b]

PartlyIn(items, b, whole) ==
    IF items = <<>> THEN [c |-> <<>>, b |-> b]
    ELSE LET h == Partly(Head(items).v, b, whole)
             r == PartlyIn(Tail(items), h.b, whole)
         IN  [c |-> <<[k |-> Head(items).k, v |-> h.n]>> \o r.c, b |-> r.b]

Aborted == pc = "failed" /\ WalksDeclared /\ error.type = "ValueError"

\* C10 as stated: when resolve aborts on the N-th name in traversal order,
\* the N-1 names before it are handles in the spec tree and the rest are
\* still names, also when they are elements of the failing name's sequence.
C10_PrefixResolved ==
    Aborted
        => LET N == FirstUnknown(NamesOf(DocPlugins))
           IN  attrs["plugins"] = Partly(DocPlugins, N - 1, FALSE).n

\* C10 amended: when resolve aborts on the N-th name in traversal order,
\* the N-1 names before it have been loaded; those outside the failing
\* name's sequence are handles in the spec tree, and that sequence, with
\* everything after it, still holds names only.
C10_EntriesResolved ==
    Aborted
        => LET names == NamesOf(DocPlugins)
               N == FirstUnknown(names)
           IN  /\ attrs["plugins"] = Partly(DocPlugins, N - 1, TRUE).n
               /\ [i \in 1..(N - 1) |-> names[i]]
                      = LET at == {j \in 1..Len(calls) : calls[j].op = "load_plugin"}
                        IN  [i \in 1..Cardinality(at) |->
                                calls[CHOOSE j \in at :
                                          Cardinality({h \in at : h <= j}) = i].name]

C10_Witness ==
    /\ Aborted
    /\ attrs["plugins"] =
           Dict(<<Entry("t", load_plugin("p1")), Entry("u", List(<<Str("p2"), Str("px")>>))>>)
    /\ LoadedNames = {"p1", "p2"}
====
